---- MODULE Spec2Model ----
(***************************************************************************)
(* Agent-creation pipeline of the rowboat python backend:                  *)
(*   AgentManagerIntegration      (agent_manager_integration.py)           *)
(*   OptimizedCrewAIAgentManager  (crew_manager_optimized.py)              *)
(*   CrewAIAgentManager           (crew_manager.py)                        *)
(*                                                                         *)
(* Concurrency model.  The program runs on one asyncio event loop.  A      *)
(* coroutine runs without interruption until it awaits something that      *)
(* really suspends it: a timer (asyncio.sleep), another task that has not  *)
(* finished (asyncio.wait_for, asyncio.gather), or a worker thread         *)
(* (asyncio.to_thread).  Awaiting a coroutine that contains no such await  *)
(* does not suspend, and acquiring a free asyncio.Lock does not suspend.   *)
(* One action of this module is therefore one run of a task between two    *)
(* suspension points.  Which runnable task the loop picks next, and when   *)
(* a timer expires, is left open.                                          *)
(***************************************************************************)
EXTENDS Integers, Sequences, FiniteSets, TLC

\* ------------------------------------------------------------- bounds ----
\* Number of agent-creation / message requests the model issues.
NumCalls == 2

Calls == 1..NumCalls

\* Keys of the agents registry: the agent_id argument of process_message.
AgentIds == {"a1", "a2"}

\* Values of agent_config.id in creation requests ("a2" is never created).
ConfigIds == {"a1"}

\* <<len(agent_config.name), len(agent_config.description)>> of the
\* configurations tried: a length of 0 is the missing (empty or None) field.
\* The pairs sit on both sides of every limit _fast_validate_agent_config
\* tests.
ConfigLens == {<<0, 0>>, <<1, 0>>, <<100, 1000>>, <<101, 0>>, <<2, 1001>>}

\* agent_config.tools: entries are tool names; " " is a blank entry.
ToolLists == {<<>>, <<" ">>, <<"github", " ">>}

\* agent_config.rag_sources
RagSourceLists == {<<>>, <<"kb">>}

\* Requests to CrewAIAgentManager, and the crew ids uuid4 can give.
NumTasks == 2
Tasks == 1..NumTasks
CrewIds == {"k1"}

\* Send requests to WebSocketManager, its websockets and conversation ids.
NumSends == 1
Sends == 1..NumSends
Sockets == {"w1", "w2"}
Convs == {"c1", "c2"}

\* Rows the tables of DatabaseManager can hold; ids stand for the uuid4
\* strings, in the order they are drawn.  Id 0 is an id no row has.
NumAgentRows == 1
NumConversationRows == 1
NumMessageRows == 2
AgentRowIds == 1..NumAgentRows
ConversationRowIds == 1..NumConversationRows
Users == {"u1", "u2"}

\* Agent ids given to SimpleCrewAIAgentManager and the crew ids uuid4 can give.
SimpleAgentIds == {"a1", "a2"}
SimpleCrewIds == {"k1", "k2"}

\* Requests to the API of main.py, the endpoints asked and the credentials
\* presented: NoCredentials is a request without a bearer token, "" an empty
\* one, "no_such_token" one that no table holds.
NumRequests == 2
AdminEndpoints == {"update_agent", "delete_agent", "list_tools", "create_tool"}
UserEndpoints == {"list_agents"}
NoCredentials == "<none>"
Credentials ==
    {NoCredentials, "", "no_such_token", "demo_token_123", "demo_token_456",
     "demo_token_789", "test_performance_user_token", "system_admin", "test_user",
     "system"}

\* Copilot streams: the ids POST /api/copilot/stream draws (0 is an id it
\* never drew), the GETs of /api/copilot-stream-response and the tokens the
\* LLM streams for one of them.
NumStreams == 1
NumGets == 2
MaxTokens == 1
StreamIds == 1..NumStreams
Gets == 1..NumGets

\* ------------------------------------------------ objects and results ----
NoObj == [kind |-> "none", status |-> "none", fallback |-> FALSE, by |-> 0]

\* The crewai Agent built by _fast_create_agent_entity for call c.
AgentObj(c) == [kind |-> "agent", status |-> "ready", fallback |-> FALSE, by |-> c]

\* fastest_fallback of _create_emergency_fallback, built in call c.
Stub(c) == [kind |-> "stub", status |-> "operational", fallback |-> TRUE, by |-> c]

\* The dict returned by the except branch of _create_emergency_fallback.
ErrorDict == [kind |-> "error", status |-> "degraded", fallback |-> FALSE, by |-> 0]

\* basic_agent of AgentManagerIntegration._fallback_create_agent.
BasicAgent(c) == [kind |-> "fallback_agent", status |-> "operational", fallback |-> TRUE, by |-> c]

\* emergency_agent of AgentManagerIntegration._emergency_fallback_handler.
EmergencyAgent(c) == [kind |-> "emergency_agent", status |-> "emergency_mode", fallback |-> FALSE, by |-> c]

\* Return values of process_message.
MsgNotFound == [kind |-> "msg_not_found", status |-> "none", fallback |-> FALSE, by |-> 0]
MsgFallback == [kind |-> "msg_fallback_mode", status |-> "none", fallback |-> TRUE, by |-> 0]
MsgKickoff == [kind |-> "msg_kickoff", status |-> "none", fallback |-> FALSE, by |-> 0]

Returned(v) == [how |-> "return", val |-> v, exc |-> "none"]
Raised(e) == [how |-> "raise", val |-> NoObj, exc |-> e]
Pending == [how |-> "pending", val |-> NoObj, exc |-> "none"]

NoCfg == [id |-> "none", nameLen |-> 0 - 1, descLen |-> 0 - 1]

\* settings.provider_default_model
DefaultModel == "default-model"

\* An agent's config dict, by the value under each key ("absent": no key).
ConfigTest == [model |-> "absent", personality |-> "helpful"]
ConfigDefaultModel == [model |-> DefaultModel, personality |-> "absent"]

\* CreateAgentRequest: the fields of AgentBase.
AgentRequest(cf, rag) ==
    [name |-> "Test Agent", description |-> "A test agent", agent_type |-> "custom",
     config |-> cf, tools |-> <<>>, triggers |-> <<>>, rag_enabled |-> rag,
     rag_sources |-> IF rag THEN <<"kb">> ELSE <<>>]

AgentRequests ==
    {AgentRequest(ConfigTest, FALSE), AgentRequest(ConfigDefaultModel, TRUE)}

\* UpdateAgentRequest, by the fields that are set.
AgentUpdates == {[name |-> "Renamed Agent"]}

\* Absent rows and results.
NoRow == [user |-> "none", name |-> "none", description |-> "none",
          agent_type |-> "none", config |-> [model |-> "absent", personality |-> "absent"],
          tools |-> <<>>, triggers |-> <<>>, rag_enabled |-> FALSE, rag_sources |-> <<>>]
NoConversation == [agent_id |-> 0 - 1, user |-> "none", message_count |-> 0]
NoCall == [op |-> "none", id |-> 0, user |-> "none", res |-> "none", model |-> NoRow]

\* A GET of a stream that was not made yet.
NoStream == [id |-> 0, pc |-> "idle", status |-> "none", queue |-> 0, tokens |-> 0,
             events |-> <<>>, sse |-> <<>>]

\* No call made yet to SimpleCrewAIAgentManager.
NoManagerCall == [op |-> "none", id |-> "none", res |-> "none", by |-> "none"]

\* Locals of a send request of WebSocketManager: the method, conversation_id
\* (for broadcast_message, the key its outer loop is at), exclude, the
\* websocket it awaits send_json on, and for broadcast_message the keys its
\* dict iterator has yielded and the dict's size when the iteration began.
NoSend == [op |-> "none", conv |-> "none", exclude |-> "none",
           websocket |-> "none", visited |-> {}, size |-> 0]

\* The list a for loop iterates: the one the registry holds under the key
\* (LiveList), or a list object the registry has dropped, which no longer
\* changes.
LiveList == [dropped |-> FALSE, list |-> <<>>]

VARIABLES
    \* AgentManagerIntegration
    optimizedManager,   \* _optimized_manager is not None
    fallbackManager,    \* _fallback_manager is not None
    isReady,            \* _is_ready
    setupRun,           \* setup_optimized_agent_manager has run
    initTask,           \* _initialization_task: none | pending | done | cancelled
    failedCreations,    \* performance_metrics["failed_creations"]
    agentCreations,     \* len(performance_metrics["agent_creations"])
    \* OptimizedCrewAIAgentManager
    isInitialized,      \* _is_initialized
    lockHeld,           \* _initialization_lock.locked()
    llm,                \* _llm: none | real | fallback
    preloaded,          \* _preload_agent_templates has run
    agents,             \* agents: agent id -> object
    agentIdCounter,     \* _agent_id_counter
    \* requests
    pc,                 \* position of each request
    kind,               \* none | create | message
    cfg,                \* agent_config: id, len(name), len(description)
    timedOut,           \* the request's wait_for raised TimeoutError
    steps,              \* steps of create_agent_optimized begun, in order
    mgrResult,          \* how OptimizedCrewAIAgentManager.create_agent_optimized ended
    outcome,            \* how the request ended for its caller
    agentTools,         \* agent.tools of the Agent built by the request
    ptask,              \* _process_tools_slowly task: none | sleeping | done | failed
    toolStarts,         \* times _process_tools_slowly was started for the request
    mtask,              \* _async_memory_setup_advanced task: none | sleeping
    \* history
    bodyRuns,           \* times the initialization body was started
    callRanInit,        \* the request started the initialization body itself
    taskRanInit,        \* the background task started the initialization body
    \* CrewAIAgentManager (crew_manager.py) and its requests
    crewAgents,         \* agents: the ids registered
    crews,              \* crews: crew id -> ids of its agents ({}: no such crew)
    tpc,                \* position of each request
    top,                \* the method the request called
    tresult,            \* how the request ended
    kickoffThread,      \* the worker thread running crew.kickoff for the request
    loopBusy,           \* request whose synchronous call holds the event loop, 0: none
    \* WebSocketManager (websocket_manager.py), its connections and its senders
    activeConnections,  \* active_connections: conversation id -> list (<<>>: no key)
    connectionMetadata, \* connection_metadata: websocket -> conversation id ("none": no key)
    wstate,             \* each websocket: new | confirming | open | closed
    spc,                \* position of each send request
    sop,                \* the method it called, its conversation_id and its exclude
    sidx,               \* list index of the websocket its loop is at
    slist,              \* the list object its loop iterates, once the registry dropped it
    scall,              \* the websockets registered under its conversation when it was called
    sent,               \* the websockets it called send_json on
    disconnectedConnections, \* disconnected_connections, as <<conversation_id, websocket>>
    sresult,            \* pending | return | RuntimeError
    connectionKeys,     \* the keys of active_connections
    cpc,                \* position of cleanup: idle | closing | done | RuntimeError
    csize,              \* len(active_connections) when cleanup began to iterate it
    \* DatabaseManager (database.py): the tables, and what the last call gave
    agentRows,          \* table agents: id -> row (NoRow: no such row)
    conversationRows,   \* table conversations: id -> row
    messageRows,        \* table messages: conversation_id -> number of rows with it
    engine,             \* none | sqlite | postgresql: what settings.database_url names
    dbLast,             \* the last call: method and result (id, user, model: agent calls)
    agentRequests,      \* the CreateAgentRequest each stored agent row was created from
    agentIdsDrawn,      \* the number of agent ids drawn so far
    deletedAgents,      \* the agent ids for which delete_agent returned True
    viaSendMessage,     \* every message row so far was stored by send_message
    \* SimpleCrewAIAgentManager (crew_manager_simple.py)
    crewai,             \* unset | available | missing: CREWAI_AVAILABLE after import
    simpleAgents,       \* agents: the ids registered
    simpleCrews,        \* crews: crew id -> ids of its agents ({}: no such crew)
    mlast,              \* the last call: method, agent id, outcome, who ran the task
    \* The API of main.py behind its authentication dependencies
    responses,          \* the requests served so far, each with its response
    \* CopilotStreamManager (copilot_stream.py) behind its endpoints of main.py
    streamCache,        \* cache: the stream ids it holds
    streamsCreated,     \* the number of stream ids drawn so far
    stream              \* each GET of a stream: its id, position, events and SSE output

vars == <<optimizedManager, fallbackManager, isReady, setupRun, initTask,
          failedCreations, agentCreations, isInitialized, lockHeld, llm,
          preloaded, agents, agentIdCounter, pc, kind, cfg, timedOut, steps,
          mgrResult, outcome, agentTools, ptask, toolStarts, mtask,
          bodyRuns, callRanInit, taskRanInit,
          crewAgents, crews, tpc, top, tresult, kickoffThread, loopBusy,
          activeConnections, connectionMetadata, wstate, spc, sop, sidx, slist,
          scall, sent, disconnectedConnections, sresult, connectionKeys, cpc, csize,
          agentRows, conversationRows, messageRows, engine, dbLast,
          agentRequests, agentIdsDrawn, deletedAgents, viaSendMessage,
          crewai, simpleAgents, simpleCrews, mlast, responses,
          streamCache, streamsCreated, stream>>

integrationVars == <<optimizedManager, fallbackManager, isReady, setupRun>>
initVars == <<isInitialized, lockHeld, llm, preloaded, bodyRuns, callRanInit, taskRanInit>>
bgVars == <<agentTools, ptask, toolStarts, mtask>>
crewManagerVars == <<crewAgents, crews, tpc, top, tresult, kickoffThread, loopBusy>>
webSocketVars == <<activeConnections, connectionMetadata, wstate, spc, sop, sidx,
                   slist, scall, sent, disconnectedConnections, sresult,
                   connectionKeys, cpc, csize>>
databaseVars == <<agentRows, conversationRows, messageRows, engine,
                  dbLast, agentRequests, agentIdsDrawn, deletedAgents, viaSendMessage>>
optimizedVars == <<optimizedManager, fallbackManager, isReady, setupRun, initTask,
                   failedCreations, agentCreations, isInitialized, lockHeld, llm,
                   preloaded, agents, agentIdCounter, pc, kind, cfg, timedOut,
                   steps, mgrResult, outcome, agentTools, ptask, toolStarts,
                   mtask, bodyRuns, callRanInit, taskRanInit>>

\* What the operations of one component leave alone: the other components.
simpleManagerVars == <<crewai, simpleAgents, simpleCrews, mlast>>
copilotVars == <<streamCache, streamsCreated, stream>>
outsideOptimized ==
    <<crewManagerVars, webSocketVars, databaseVars, simpleManagerVars, responses, copilotVars>>
outsideCrewManager ==
    <<optimizedVars, webSocketVars, databaseVars, simpleManagerVars, responses, copilotVars>>
outsideWebSocket ==
    <<optimizedVars, crewManagerVars, databaseVars, simpleManagerVars, responses, copilotVars>>
outsideDatabase ==
    <<optimizedVars, crewManagerVars, webSocketVars, simpleManagerVars, responses, copilotVars>>
outsideSimpleManager ==
    <<optimizedVars, crewManagerVars, webSocketVars, databaseVars, responses, copilotVars>>
outsideApi ==
    <<optimizedVars, crewManagerVars, webSocketVars, databaseVars, simpleManagerVars,
      copilotVars>>
outsideCopilot ==
    <<optimizedVars, crewManagerVars, webSocketVars, databaseVars, simpleManagerVars,
      responses>>

Init ==
    /\ optimizedManager = FALSE
    /\ fallbackManager = FALSE
    /\ isReady = FALSE
    /\ setupRun = FALSE
    /\ initTask = "none"
    /\ failedCreations = 0
    /\ agentCreations = 0
    /\ isInitialized = FALSE
    /\ lockHeld = FALSE
    /\ llm = "none"
    /\ preloaded = FALSE
    /\ agents = [i \in AgentIds |-> NoObj]
    /\ agentIdCounter = 0
    /\ pc = [c \in Calls |-> "idle"]
    /\ kind = [c \in Calls |-> "none"]
    /\ cfg = [c \in Calls |-> NoCfg]
    /\ timedOut = [c \in Calls |-> FALSE]
    /\ steps = [c \in Calls |-> <<>>]
    /\ mgrResult = [c \in Calls |-> Pending]
    /\ outcome = [c \in Calls |-> Pending]
    /\ agentTools = [c \in Calls |-> {}]
    /\ ptask = [c \in Calls |-> "none"]
    /\ toolStarts = [c \in Calls |-> 0]
    /\ mtask = [c \in Calls |-> "none"]
    /\ bodyRuns = 0
    /\ callRanInit = [c \in Calls |-> FALSE]
    /\ taskRanInit = FALSE
    /\ crewAgents = {}
    /\ crews = [k \in CrewIds |-> {}]
    /\ tpc = [t \in Tasks |-> "idle"]
    /\ top = [t \in Tasks |-> "none"]
    /\ tresult = [t \in Tasks |-> "pending"]
    /\ kickoffThread = [t \in Tasks |-> "none"]
    /\ loopBusy = 0
    /\ activeConnections = [c \in Convs |-> <<>>]
    /\ connectionMetadata = [w \in Sockets |-> "none"]
    /\ wstate = [w \in Sockets |-> [st |-> "new", conv |-> "none"]]
    /\ spc = [s \in Sends |-> "idle"]
    /\ sop = [s \in Sends |-> NoSend]
    /\ sidx = [s \in Sends |-> 0]
    /\ slist = [s \in Sends |-> LiveList]
    /\ scall = [s \in Sends |-> {}]
    /\ sent = [s \in Sends |-> {}]
    /\ disconnectedConnections = [s \in Sends |-> <<>>]
    /\ sresult = [s \in Sends |-> "pending"]
    /\ connectionKeys = {}
    /\ cpc = "idle"
    /\ csize = 0
    /\ agentRows = [i \in AgentRowIds |-> NoRow]
    /\ conversationRows = [i \in ConversationRowIds |-> NoConversation]
    /\ messageRows = [c \in 0..NumConversationRows |-> 0]
    /\ engine = "none"
    /\ dbLast = NoCall
    /\ agentRequests = [i \in AgentRowIds |-> NoRow]
    /\ agentIdsDrawn = 0
    /\ deletedAgents = {}
    /\ viaSendMessage = TRUE
    /\ crewai = "unset"
    /\ simpleAgents = {}
    /\ simpleCrews = [k \in SimpleCrewIds |-> {}]
    /\ mlast = NoManagerCall
    /\ responses = <<>>
    /\ streamCache = {}
    /\ streamsCreated = 0
    /\ stream = [r \in Gets |-> NoStream]

\* ------------------------------------------- program constants (code) ----
\* crew_manager_optimized.py line 311: len(name) < 2 is rejected.
MinNameLen == 2
\* crew_manager_optimized.py line 311: len(name) > 100 is rejected.
MaxNameLen == 100
\* crew_manager_optimized.py line 315: len(description) > 1000 is rejected.
MaxDescLen == 1000
\* crew_manager_optimized.py line 370: at most 10 tools are kept.
MaxValidTools == 10

\* The module namespace of crew_manager_optimized.py: basic_metrics is used
\* at lines 294 and 519 and is neither imported nor defined there, so both
\* uses raise NameError.
BasicMetricsBound == FALSE

\* The names crew_manager_simple.py defines at module level that
\* _setup_fallback_manager could import.
SimpleModuleExports == {"SimpleCrewAIAgentManager", "agent_manager", "Agent", "Task", "Crew"}

\* The name _setup_fallback_manager imports from crew_manager_simple.
FallbackImportName == "SimpleAgentManager"

\* ------------------------------------------------------ pure helpers ----
\* str.strip() on a tool name.
Strip(t) == IF t = " " THEN "" ELSE t

\* _fast_validate_agent_config
FastValidateAgentConfigOffByOne(nameLen, descLen) ==
    /\ ~(nameLen = 0 \/ nameLen < MinNameLen - 1 \/ nameLen > MaxNameLen)
    /\ ~(descLen # 0 /\ descLen > MaxDescLen)

FastValidateAgentConfig(nameLen, descLen) ==
    /\ ~(nameLen = 0 \/ nameLen < MinNameLen \/ nameLen > MaxNameLen)
    /\ ~(descLen # 0 /\ descLen > MaxDescLen)

\* valid_tools of _async_add_tools_background
ValidTools(tools) ==
    LET kept == SelectSeq(tools, LAMBDA t : t # "" /\ Len(Strip(t)) > 0)
        stripped == [i \in 1..Len(kept) |-> Strip(kept[i])]
    IN  IF Len(stripped) > MaxValidTools THEN SubSeq(stripped, 1, MaxValidTools) ELSE stripped

\* How many _process_tools_slowly tasks _async_add_tools_background spawns.
ToolTasksSpawnedPerTool(tools) == IF Len(tools) = 0 THEN 0 ELSE Len(tools)

ToolTasksSpawned(tools) ==
    IF Len(tools) = 0 THEN 0
    ELSE IF Len(ValidTools(tools)) > 0 THEN 1 ELSE 0

\* The try body of _ensure_initialized (llmOk: ChatOpenAI can be built):
\* _fast_async_init_llm falls back to a mock LLM when it cannot,
\* _preload_agent_templates logs and swallows its errors, so the body always
\* reaches _is_initialized = True.  preloaded says that the preload ran;
\* which templates it cached is not modelled.
InitBodyFlagForgotten(llmOk) ==
    [isInitialized |-> FALSE,
     llm |-> IF llmOk THEN "real" ELSE "fallback",
     preloaded |-> TRUE]

InitBody(llmOk) ==
    [isInitialized |-> TRUE,
     llm |-> IF llmOk THEN "real" ELSE "fallback",
     preloaded |-> TRUE]

\* _ensure_initialized, entered with the lock free: the fast check, the
\* lock, the double check and the body run without a suspension point.
EnsureInitialized(st, llmOk) ==
    IF st.isInitialized
    THEN [isInitialized |-> st.isInitialized, llm |-> st.llm,
          preloaded |-> st.preloaded, ran |-> FALSE]
    ELSE LET b == InitBody(llmOk)
         IN  [isInitialized |-> b.isInitialized, llm |-> b.llm,
              preloaded |-> b.preloaded, ran |-> TRUE]

\* _create_emergency_fallback: the stub is stored, then
\* basic_metrics.record_error raises NameError, which the except branch
\* turns into the error dict.
CreateEmergencyFallbackNoCatch(ag, id, c) ==
    LET stored == [ag EXCEPT ![id] = Stub(c)]
    IN  IF BasicMetricsBound
        THEN [agents |-> stored, res |-> Returned(Stub(c))]
        ELSE [agents |-> stored, res |-> Raised("NameError")]

CreateEmergencyFallback(ag, id, c) ==
    LET stored == [ag EXCEPT ![id] = Stub(c)]
    IN  IF BasicMetricsBound
        THEN [agents |-> stored, res |-> Returned(Stub(c))]
        ELSE [agents |-> stored, res |-> Returned(ErrorDict)]

\* create_agent_optimized from "self.agents[agent_id] = agent" to its end:
\* basic_metrics.record_metric raises NameError, the except branch runs
\* _create_emergency_fallback.
FinishCreate(ag, id, c) ==
    LET stored == [ag EXCEPT ![id] = AgentObj(c)]
    IN  IF BasicMetricsBound
        THEN [agents |-> stored, res |-> Returned(AgentObj(c))]
        ELSE CreateEmergencyFallback(stored, id, c)

\* AgentManagerIntegration.create_agent_optimized after the manager's call:
\* a truthy result is returned and timed, None or an exception goes to
\* _emergency_fallback_handler.
IntegrationResult(res, c) ==
    IF res.how = "return" /\ res.val.kind # "none"
    THEN [out |-> Returned(res.val), created |-> 1, failed |-> 0]
    ELSE [out |-> Returned(EmergencyAgent(c)), created |-> 0, failed |-> 1]

\* _setup_fallback_manager: the import succeeds when crew_manager_simple
\* defines the imported name.
FallbackImportSucceeds == FallbackImportName \in SimpleModuleExports

\* --------------------------------------------------------- actions ----
\* A request ends: what its caller gets and the integration's counters.
EndCall(c, out, created, failed) ==
    /\ pc' = [pc EXCEPT ![c] = "done"]
    /\ outcome' = [outcome EXCEPT ![c] = out]
    /\ agentCreations' = agentCreations + created
    /\ failedCreations' = failedCreations + failed

\* Requests are numbered in the order they arrive.
InOrder(c) == \A b \in Calls : b < c => pc[b] # "idle"

\* setup_optimized_agent_manager, with _setup_fallback_manager: optOk is
\* whether importing and constructing OptimizedCrewAIAgentManager works.
Setup ==
    /\ ~setupRun
    /\ setupRun' = TRUE
    /\ \E optOk \in BOOLEAN :
          IF optOk
          THEN /\ optimizedManager' = TRUE
               /\ initTask' = "pending"
               /\ isReady' = TRUE
               /\ fallbackManager' = fallbackManager
          ELSE /\ optimizedManager' = optimizedManager
               /\ initTask' = initTask
               /\ fallbackManager' = (fallbackManager \/ FallbackImportSucceeds)
               /\ isReady' = (isReady \/ FallbackImportSucceeds)
    /\ UNCHANGED <<failedCreations, agentCreations, initVars, agents,
                   agentIdCounter, pc, kind, cfg, timedOut, steps, mgrResult,
                   outcome, bgVars>>
    /\ UNCHANGED outsideOptimized

\* The manager state after a caller p ran _ensure_initialized.
ApplyEnsure(r) ==
    /\ r.ran => ~lockHeld
    /\ isInitialized' = r.isInitialized
    /\ llm' = r.llm
    /\ preloaded' = r.preloaded
    /\ lockHeld' = lockHeld
    /\ bodyRuns' = bodyRuns + (IF r.ran THEN 1 ELSE 0)

ManagerInitState ==
    [isInitialized |-> isInitialized, llm |-> llm, preloaded |-> preloaded]

NotRun(st) ==
    [isInitialized |-> st.isInitialized, llm |-> st.llm,
     preloaded |-> st.preloaded, ran |-> FALSE]

\* The background task created by setup_optimized_agent_manager runs
\* _ensure_initialized.
InitTaskRun ==
    /\ initTask = "pending"
    /\ \E llmOk \in BOOLEAN :
          LET r == EnsureInitialized(ManagerInitState, llmOk)
          IN  /\ ApplyEnsure(r)
              /\ taskRanInit' = (taskRanInit \/ r.ran)
    /\ initTask' = "done"
    /\ UNCHANGED <<integrationVars, failedCreations, agentCreations,
                   callRanInit, agents, agentIdCounter, pc, kind, cfg,
                   timedOut, steps, mgrResult, outcome, bgVars>>
    /\ UNCHANGED outsideOptimized

\* OptimizedCrewAIAgentManager.create_agent_optimized from its first line to
\* the await of asyncio.gather (or, when a step raises, to its return).
\* agentOk is whether the crewai Agent constructor succeeds.
EnterManager(c) ==
    \E id \in ConfigIds, nd \in ConfigLens, llmOk \in BOOLEAN, agentOk \in BOOLEAN :
       LET n == nd[1]
           d == nd[2]
           valid == FastValidateAgentConfig(n, d)
           r == IF valid THEN EnsureInitialized(ManagerInitState, llmOk)
                ELSE NotRun(ManagerInitState)
           fb == CreateEmergencyFallback(agents, id, c)
           ir == IntegrationResult(fb.res, c)
       IN  /\ cfg' = [cfg EXCEPT ![c] = [@ EXCEPT !.id = id, !.nameLen = n, !.descLen = d]]
           /\ agentIdCounter' = agentIdCounter + 1
           /\ ApplyEnsure(r)
           /\ callRanInit' = [callRanInit EXCEPT ![c] = r.ran]
           /\ taskRanInit' = taskRanInit
           /\ steps' = [steps EXCEPT ![c] =
                          IF valid
                          THEN <<"validate", "template", "ensure_init", "construct">>
                          ELSE <<"validate">>]
           /\ IF valid /\ agentOk
              THEN /\ pc' = [pc EXCEPT ![c] = "gather"]
                   /\ UNCHANGED <<agents, mgrResult, outcome, agentCreations,
                                  failedCreations>>
              ELSE /\ agents' = fb.agents
                   /\ mgrResult' = [mgrResult EXCEPT ![c] = fb.res]
                   /\ EndCall(c, ir.out, ir.created, ir.failed)
           /\ UNCHANGED <<integrationVars, bgVars>>

\* AgentManagerIntegration.create_agent_optimized up to its first
\* suspension point.
Begin(c) ==
    /\ pc[c] = "idle"
    /\ InOrder(c)
    /\ kind' = [kind EXCEPT ![c] = "create"]
    /\ IF ~isReady
       THEN /\ EndCall(c, Raised("RuntimeError"), 0, 0)
            /\ UNCHANGED <<integrationVars, initTask, initVars, agents,
                           agentIdCounter, cfg, timedOut, steps, mgrResult, bgVars>>
       ELSE IF optimizedManager
       THEN IF initTask = "pending"
            THEN /\ pc' = [pc EXCEPT ![c] = "wait_init"]
                 /\ UNCHANGED <<integrationVars, initTask, failedCreations,
                                agentCreations, initVars, agents, agentIdCounter,
                                cfg, timedOut, steps, mgrResult, outcome, bgVars>>
            ELSE /\ EnterManager(c)
                 /\ UNCHANGED <<initTask, timedOut>>
       ELSE IF fallbackManager
       THEN /\ EndCall(c, Returned(BasicAgent(c)), 1, 0)
            /\ UNCHANGED <<integrationVars, initTask, initVars, agents,
                           agentIdCounter, cfg, timedOut, steps, mgrResult, bgVars>>
       ELSE /\ EndCall(c, Returned(EmergencyAgent(c)), 0, 1)
            /\ UNCHANGED <<integrationVars, initTask, initVars, agents,
                           agentIdCounter, cfg, timedOut, steps, mgrResult, bgVars>>
    /\ UNCHANGED outsideOptimized

\* asyncio.wait_for(self._initialization_task, 0.5) returns: the task ended.
WaitDone(c) ==
    /\ pc[c] = "wait_init"
    /\ initTask = "done"
    /\ EnterManager(c)
    /\ UNCHANGED <<initTask, timedOut, kind>>
    /\ UNCHANGED outsideOptimized

\* The 0.5 s timer expires first: wait_for cancels the task it waits for and
\* raises TimeoutError, which the request swallows.
WaitTimeout(c) ==
    /\ pc[c] = "wait_init"
    /\ initTask = "pending"
    /\ initTask' = "cancelled"
    /\ timedOut' = [timedOut EXCEPT ![c] = TRUE]
    /\ EnterManager(c)
    /\ UNCHANGED kind
    /\ UNCHANGED outsideOptimized

\* Another request's timeout cancelled the task this request waits for:
\* wait_for raises CancelledError, which neither except clause catches.
WaitCancelled(c) ==
    /\ pc[c] = "wait_init"
    /\ initTask = "cancelled"
    /\ EndCall(c, Raised("CancelledError"), 0, 0)
    /\ UNCHANGED <<integrationVars, initTask, initVars, agents, agentIdCounter,
                   kind, cfg, timedOut, steps, mgrResult, bgVars>>
    /\ UNCHANGED outsideOptimized

\* The three coroutines asyncio.gather runs as tasks; none of them suspends.
\* _async_add_tools_background and _async_setup_memory_background spawn
\* their background task, _async_complete_configuration builds and attaches
\* the RAG tools itself (ragOk: create_rag_tool succeeds).
GatherRun(c) ==
    /\ pc[c] = "gather"
    /\ \E tools \in ToolLists, mem \in BOOLEAN, ragEnabled \in BOOLEAN,
          ragSources \in RagSourceLists, ragOk \in BOOLEAN :
          /\ toolStarts' = [toolStarts EXCEPT ![c] = @ + ToolTasksSpawned(tools)]
          /\ ptask' = [ptask EXCEPT ![c] =
                          IF ToolTasksSpawned(tools) > 0 THEN "sleeping" ELSE @]
          /\ mtask' = [mtask EXCEPT ![c] = IF mem THEN "sleeping" ELSE @]
          /\ agentTools' = [agentTools EXCEPT ![c] =
                          IF ragEnabled /\ Len(ragSources) > 0 /\ ragOk
                          THEN @ \cup {"rag"} ELSE @]
    /\ pc' = [pc EXCEPT ![c] = "gathered"]
    /\ steps' = [steps EXCEPT ![c] = Append(@, "background")]
    /\ UNCHANGED <<integrationVars, initTask, failedCreations, agentCreations,
                   initVars, agents, agentIdCounter, kind, cfg, timedOut,
                   mgrResult, outcome>>
    /\ UNCHANGED outsideOptimized

\* asyncio.gather has returned: create_agent_optimized runs to its return,
\* and the integration hands the result to its caller.
Finish(c) ==
    /\ pc[c] = "gathered"
    /\ LET fin == FinishCreate(agents, cfg[c].id, c)
           ir == IntegrationResult(fin.res, c)
       IN  /\ agents' = fin.agents
           /\ mgrResult' = [mgrResult EXCEPT ![c] = fin.res]
           /\ EndCall(c, ir.out, ir.created, ir.failed)
    /\ UNCHANGED <<integrationVars, initTask, initVars, agentIdCounter, kind,
                   cfg, timedOut, steps, bgVars>>
    /\ UNCHANGED outsideOptimized

\* _process_tools_slowly after its sleep: Composio tools are attached, or
\* Composio is not available, or an error is logged and swallowed.
ToolsRun(c) ==
    /\ ptask[c] = "sleeping"
    /\ \E how \in {"attached", "unavailable", "error"} :
          /\ ptask' = [ptask EXCEPT ![c] = IF how = "error" THEN "failed" ELSE "done"]
          /\ agentTools' = [agentTools EXCEPT ![c] =
                              IF how = "attached" THEN @ \cup {"composio"} ELSE @]
    /\ UNCHANGED <<integrationVars, initTask, failedCreations, agentCreations,
                   initVars, agents, agentIdCounter, pc, kind, cfg, timedOut,
                   steps, mgrResult, outcome, toolStarts, mtask>>
    /\ UNCHANGED outsideOptimized

\* _async_memory_setup_advanced after its sleep: it logs and ends, and
\* nothing holds a reference to the finished task.
MemoryRun(c) ==
    /\ mtask[c] = "sleeping"
    /\ mtask' = [mtask EXCEPT ![c] = "none"]
    /\ UNCHANGED <<integrationVars, initTask, failedCreations, agentCreations,
                   initVars, agents, agentIdCounter, pc, kind, cfg, timedOut,
                   steps, mgrResult, outcome, agentTools, ptask, toolStarts>>
    /\ UNCHANGED outsideOptimized

\* OptimizedCrewAIAgentManager.process_message: it has no suspension point.
ProcessMessage(c) ==
    /\ pc[c] = "idle"
    /\ InOrder(c)
    /\ optimizedManager
    /\ kind' = [kind EXCEPT ![c] = "message"]
    /\ \E id \in AgentIds, llmOk \in BOOLEAN :
          LET agent == agents[id]
              r == IF agent.kind = "none" THEN NotRun(ManagerInitState)
                   ELSE EnsureInitialized(ManagerInitState, llmOk)
          IN  /\ cfg' = [cfg EXCEPT ![c] = [@ EXCEPT !.id = id]]
              /\ ApplyEnsure(r)
              /\ callRanInit' = [callRanInit EXCEPT ![c] = r.ran]
              /\ taskRanInit' = taskRanInit
              /\ EndCall(c, Returned(IF agent.kind = "none" THEN MsgNotFound
                                     ELSE IF agent.kind = "agent" THEN MsgKickoff
                                     ELSE MsgFallback), 0, 0)
    /\ UNCHANGED <<integrationVars, initTask, agents, agentIdCounter, timedOut,
                   steps, mgrResult, bgVars>>
    /\ UNCHANGED outsideOptimized

Next ==
    \/ Setup
    \/ InitTaskRun
    \/ \E c \in Calls : Begin(c)
    \/ \E c \in Calls : WaitDone(c)
    \/ \E c \in Calls : WaitTimeout(c)
    \/ \E c \in Calls : WaitCancelled(c)
    \/ \E c \in Calls : GatherRun(c)
    \/ \E c \in Calls : Finish(c)
    \/ \E c \in Calls : ToolsRun(c)
    \/ \E c \in Calls : MemoryRun(c)
    \/ \E c \in Calls : ProcessMessage(c)

Spec == Init /\ [][Next]_vars

\* ------------------------------- CrewAIAgentManager (crew_manager.py) ----
\* A coroutine of CrewAIAgentManager runs on the event loop thread; it can
\* start only when no synchronous call holds that thread.
LoopFree == loopBusy = 0

TaskInOrder(t) == \A b \in Tasks : b < t => tpc[b] # "idle"

TaskEnd(t, res) ==
    /\ tpc' = [tpc EXCEPT ![t] = "done"]
    /\ tresult' = [tresult EXCEPT ![t] = res]

\* create_agent: ok is whether the crewai Agent constructor succeeds.
CreateAgent(t) ==
    /\ tpc[t] = "idle" /\ TaskInOrder(t) /\ LoopFree
    /\ top' = [top EXCEPT ![t] = "create_agent"]
    /\ \E id \in AgentIds, ok \in BOOLEAN :
          /\ crewAgents' = IF ok THEN crewAgents \cup {id} ELSE crewAgents
          /\ TaskEnd(t, IF ok THEN "result" ELSE "error")
    /\ UNCHANGED <<crews, kickoffThread, loopBusy, outsideCrewManager>>

\* create_crew: the crew gets the registered agents among agent_ids and a
\* fresh uuid4 as its id.
CreateCrew(t) ==
    /\ tpc[t] = "idle" /\ TaskInOrder(t) /\ LoopFree
    /\ top' = [top EXCEPT ![t] = "create_crew"]
    /\ \E ids \in SUBSET AgentIds, k \in CrewIds :
          /\ crews[k] = {}
          /\ LET members == ids \cap crewAgents
             IN  IF members = {}
                 THEN /\ TaskEnd(t, "ValueError")
                      /\ crews' = crews
                 ELSE /\ TaskEnd(t, "result")
                      /\ crews' = [crews EXCEPT ![k] = members]
    /\ UNCHANGED <<crewAgents, kickoffThread, loopBusy, outsideCrewManager>>

\* execute_task up to result = crew.kickoff(): the call is made by the
\* coroutine itself, on the event loop thread.
ExecuteTask(t) ==
    /\ tpc[t] = "idle" /\ TaskInOrder(t) /\ LoopFree
    /\ top' = [top EXCEPT ![t] = "execute_task"]
    /\ \E id \in AgentIds :
          IF id \notin crewAgents
          THEN /\ TaskEnd(t, "ValueError")
               /\ loopBusy' = loopBusy
          ELSE /\ tpc' = [tpc EXCEPT ![t] = "kickoff_inline"]
               /\ tresult' = tresult
               /\ loopBusy' = t
    /\ UNCHANGED <<crewAgents, crews, kickoffThread, outsideCrewManager>>

\* execute_crew_task up to result = crew.kickoff(), called the same way.
ExecuteCrewTask(t) ==
    /\ tpc[t] = "idle" /\ TaskInOrder(t) /\ LoopFree
    /\ top' = [top EXCEPT ![t] = "execute_crew_task"]
    /\ \E k \in CrewIds :
          IF crews[k] = {}
          THEN /\ TaskEnd(t, "ValueError")
               /\ loopBusy' = loopBusy
          ELSE /\ tpc' = [tpc EXCEPT ![t] = "kickoff_inline"]
               /\ tresult' = tresult
               /\ loopBusy' = t
    /\ UNCHANGED <<crewAgents, crews, kickoffThread, outsideCrewManager>>

\* The synchronous crew.kickoff() of execute_task or execute_crew_task
\* returns or raises, and the coroutine runs to its end.
KickoffInlineEnd(t) ==
    /\ tpc[t] = "kickoff_inline"
    /\ \E ok \in BOOLEAN : TaskEnd(t, IF ok THEN "result" ELSE "error")
    /\ loopBusy' = 0
    /\ UNCHANGED <<crewAgents, crews, top, kickoffThread, outsideCrewManager>>

\* copilot_assist up to await asyncio.wait_for(asyncio.to_thread(
\* crew.kickoff), timeout=120.0): built is whether Agent, Task and Crew
\* could be constructed.
CopilotAssist(t) ==
    /\ tpc[t] = "idle" /\ TaskInOrder(t) /\ LoopFree
    /\ top' = [top EXCEPT ![t] = "copilot_assist"]
    /\ \E built \in BOOLEAN :
          IF built
          THEN /\ tpc' = [tpc EXCEPT ![t] = "kickoff_thread"]
               /\ kickoffThread' = [kickoffThread EXCEPT ![t] = "running"]
               /\ tresult' = tresult
          ELSE /\ TaskEnd(t, "error")
               /\ kickoffThread' = kickoffThread
    /\ UNCHANGED <<crewAgents, crews, loopBusy, outsideCrewManager>>

\* crew.kickoff ends in its worker thread, whatever the event loop does.
KickoffThreadEnd(t) ==
    /\ kickoffThread[t] = "running"
    /\ \E ok \in BOOLEAN :
          kickoffThread' = [kickoffThread EXCEPT ![t] = IF ok THEN "returned" ELSE "raised"]
    /\ UNCHANGED <<crewAgents, crews, tpc, top, tresult, loopBusy, outsideCrewManager>>

\* The event loop resumes copilot_assist with what the thread produced.
CopilotResume(t) ==
    /\ tpc[t] = "kickoff_thread" /\ LoopFree
    /\ kickoffThread[t] \in {"returned", "raised"}
    /\ TaskEnd(t, IF kickoffThread[t] = "returned" THEN "result" ELSE "error")
    /\ UNCHANGED <<crewAgents, crews, top, kickoffThread, loopBusy, outsideCrewManager>>

\* The 120 s pass first: copilot_assist returns its timeout message; the
\* worker thread cannot be cancelled and goes on running.
CopilotTimeout(t) ==
    /\ tpc[t] = "kickoff_thread" /\ LoopFree
    /\ kickoffThread[t] = "running"
    /\ TaskEnd(t, "timeout_message")
    /\ UNCHANGED <<crewAgents, crews, top, kickoffThread, loopBusy, outsideCrewManager>>

KickoffNext ==
    \/ \E t \in Tasks : CreateAgent(t)
    \/ \E t \in Tasks : CreateCrew(t)
    \/ \E t \in Tasks : ExecuteTask(t)
    \/ \E t \in Tasks : ExecuteCrewTask(t)
    \/ \E t \in Tasks : KickoffInlineEnd(t)
    \/ \E t \in Tasks : CopilotAssist(t)
    \/ \E t \in Tasks : KickoffThreadEnd(t)
    \/ \E t \in Tasks : CopilotResume(t)
    \/ \E t \in Tasks : CopilotTimeout(t)

KickoffSpec == Init /\ [][KickoffNext]_vars

\* --------------------------- WebSocketManager (websocket_manager.py) ----
InList(w, l) == \E i \in 1..Len(l) : l[i] = w

SetOf(l) == {l[i] : i \in 1..Len(l)}

\* list.remove(websocket); a websocket is in a list at most once.
Remove(l, w) == SelectSeq(l, LAMBDA x : x # w)

\* The keys of active_connections under which a loop finds a websocket.
Keys(ac) == {c \in Convs : ac[c] # <<>>}

\* The registry with the loops that iterate a list of it:
\* [ac |-> active_connections, md |-> connection_metadata, sl |-> slist,
\*  keys |-> the keys of active_connections].
\* DropList: the key c is deleted while its list holds l; a loop that iterates
\* that list goes on over the dropped object.
DropList(sl, c, l) ==
    [s \in Sends |->
        IF spc[s] = "awaiting" /\ sop[s].conv = c /\ ~sl[s].dropped
        THEN [dropped |-> TRUE, list |-> l] ELSE sl[s]]

\* disconnect(conversation_id, websocket) removing every connection of the
\* conversation: what a cleanup would do if it did not pass the websocket.
DisconnectWholeConversation(st, c, w) ==
    IF c \notin st.keys THEN st
    ELSE [ac |-> [st.ac EXCEPT ![c] = <<>>],
          md |-> [x \in Sockets |-> IF InList(x, st.ac[c]) THEN "none" ELSE st.md[x]],
          sl |-> DropList(st.sl, c, st.ac[c]),
          keys |-> st.keys \ {c}]

\* A disconnect(conversation_id, websocket) without the clean-up of empty
\* conversation groups.
DisconnectKeepsEmptyGroup(st, c, w) ==
    IF c \notin st.keys \/ w = "none" THEN DisconnectWholeConversation(st, c, w)
    ELSE [ac |-> [st.ac EXCEPT ![c] = Remove(st.ac[c], w)],
          md |-> IF InList(w, st.ac[c]) THEN [st.md EXCEPT ![w] = "none"] ELSE st.md,
          sl |-> st.sl,
          keys |-> st.keys]

\* disconnect(conversation_id, websocket); w = "none" is websocket=None.
Disconnect(st, c, w) ==
    IF c \notin st.keys THEN st
    ELSE IF w # "none"
    THEN LET l == IF InList(w, st.ac[c]) THEN Remove(st.ac[c], w) ELSE st.ac[c]
         IN  [ac |-> [st.ac EXCEPT ![c] = l],
              md |-> IF InList(w, st.ac[c]) THEN [st.md EXCEPT ![w] = "none"] ELSE st.md,
              sl |-> IF l = <<>> THEN DropList(st.sl, c, l) ELSE st.sl,
              keys |-> IF l = <<>> THEN st.keys \ {c} ELSE st.keys]
    ELSE [ac |-> [st.ac EXCEPT ![c] = <<>>],
          md |-> [x \in Sockets |-> IF InList(x, st.ac[c]) THEN "none" ELSE st.md[x]],
          sl |-> DropList(st.sl, c, st.ac[c]),
          keys |-> st.keys \ {c}]

\* for ... in disconnected_connections: self.disconnect(conversation_id, websocket)
RECURSIVE CleanUp(_, _)
CleanUp(st, f) ==
    IF f = <<>> THEN st
    ELSE CleanUp(Disconnect(st, Head(f)[1], Head(f)[2]), Tail(f))

Registry == [ac |-> activeConnections, md |-> connectionMetadata, sl |-> slist,
             keys |-> connectionKeys]

SetRegistry(st) ==
    /\ activeConnections' = st.ac
    /\ connectionMetadata' = st.md
    /\ slist' = st.sl
    /\ connectionKeys' = st.keys

\* The list iterator's next(): the index of the first item after the k items
\* already fetched that is not exclude, 0 when the list is exhausted first.
NextItem(l, k, exclude) ==
    IF \E j \in (k + 1)..Len(l) : l[j] # exclude
    THEN CHOOSE j \in (k + 1)..Len(l) :
            /\ l[j] # exclude
            /\ \A i \in (k + 1)..(j - 1) : l[i] = exclude
    ELSE 0

\* The list object the loop of request s iterates.
LoopList(s) ==
    IF slist[s].dropped THEN slist[s].list ELSE activeConnections[sop[s].conv]

SendInOrder(s) == \A b \in Sends : b < s => spc[b] # "idle"

\* connect: accept, register, and begin send_personal_message.  accepted is
\* whether websocket.accept() succeeds.
Connect(w, c) ==
    /\ wstate[w].st = "new"
    /\ \E accepted \in BOOLEAN :
          IF accepted
          THEN /\ activeConnections' = [activeConnections EXCEPT ![c] = Append(@, w)]
               /\ connectionMetadata' = [connectionMetadata EXCEPT ![w] = c]
               /\ connectionKeys' = connectionKeys \cup {c}
               /\ wstate' = [wstate EXCEPT ![w] = [st |-> "confirming", conv |-> c]]
          ELSE /\ wstate' = [wstate EXCEPT ![w] = [st |-> "refused", conv |-> "none"]]
               /\ UNCHANGED <<activeConnections, connectionMetadata, connectionKeys>>
    /\ UNCHANGED <<cpc, csize, spc, sop, sidx, slist, scall, sent, disconnectedConnections, sresult, outsideWebSocket>>

\* send_personal_message of connect ends: when send_json raised, the
\* websocket is looked up in the registry and disconnected.
ConnectConfirmed(w) ==
    /\ wstate[w].st = "confirming"
    /\ wstate' = [wstate EXCEPT ![w].st = "connected"]
    /\ \E ok \in BOOLEAN :
          IF ok \/ \A c \in Convs : ~InList(w, activeConnections[c])
          THEN UNCHANGED <<activeConnections, connectionMetadata, slist, connectionKeys>>
          ELSE LET c == CHOOSE c \in Convs : InList(w, activeConnections[c])
               IN  SetRegistry(Disconnect(Registry, c, w))
    /\ UNCHANGED <<cpc, csize, spc, sop, sidx, scall, sent, disconnectedConnections, sresult, outsideWebSocket>>

\* disconnect(conversation_id), as the websocket endpoint of a client of the
\* conversation calls it when receive_json raises WebSocketDisconnect: the
\* endpoint of that client ends.
DisconnectConversation(c) ==
    /\ \E w \in Sockets :
          /\ wstate[w] = [st |-> "connected", conv |-> c]
          /\ wstate' = [wstate EXCEPT ![w].st = "closed"]
    /\ SetRegistry(Disconnect(Registry, c, "none"))
    /\ UNCHANGED <<cpc, csize, spc, sop, sidx, scall, sent, disconnectedConnections, sresult, outsideWebSocket>>

\* The request returns after its cleanup loop.
SendReturn(s, f) ==
    /\ SetRegistry(CleanUp(Registry, f))
    /\ spc' = [spc EXCEPT ![s] = "done"]
    /\ sresult' = [sresult EXCEPT ![s] = "return"]

\* send_conversation_message up to its first send_json.
SendConversationMessage(s) ==
    /\ spc[s] = "idle" /\ SendInOrder(s)
    /\ \E c \in Convs, ex \in Sockets \cup {"none"} :
          LET l == activeConnections[c]
              j == NextItem(l, 0, ex)
              op == [NoSend EXCEPT !.op = "send_conversation_message",
                                   !.conv = c, !.exclude = ex]
          IN  /\ scall' = [scall EXCEPT ![s] = SetOf(l)]
              /\ IF j = 0
                 THEN /\ SendReturn(s, <<>>)
                      /\ sop' = [sop EXCEPT ![s] = op]
                      /\ sidx' = sidx
                 ELSE /\ spc' = [spc EXCEPT ![s] = "awaiting"]
                      /\ sidx' = [sidx EXCEPT ![s] = j]
                      /\ sop' = [sop EXCEPT ![s] = [op EXCEPT !.websocket = l[j]]]
                      /\ UNCHANGED <<activeConnections, connectionMetadata, slist, connectionKeys, sresult>>
    /\ UNCHANGED <<cpc, csize, wstate, sent, disconnectedConnections, outsideWebSocket>>

\* broadcast_message up to its first send_json.  The dict iterator yields
\* the keys in an order the model leaves open.
BroadcastMessage(s) ==
    /\ spc[s] = "idle" /\ SendInOrder(s)
    /\ scall' = [scall EXCEPT ![s] = UNION {SetOf(activeConnections[c]) : c \in Convs}]
    /\ LET op == [NoSend EXCEPT !.op = "broadcast_message",
                               !.size = Cardinality(connectionKeys)]
       IN  IF Keys(activeConnections) = {}
           THEN /\ SendReturn(s, <<>>)
                /\ sop' = [sop EXCEPT ![s] = op]
                /\ sidx' = sidx
           ELSE \E c \in Keys(activeConnections) :
                   /\ spc' = [spc EXCEPT ![s] = "awaiting"]
                   /\ sidx' = [sidx EXCEPT ![s] = 1]
                   /\ sop' = [sop EXCEPT ![s] =
                                [op EXCEPT !.conv = c, !.visited = {c},
                                           !.websocket = activeConnections[c][1]]]
                   /\ UNCHANGED <<activeConnections, connectionMetadata, slist, connectionKeys, sresult>>
    /\ UNCHANGED <<cpc, csize, wstate, sent, disconnectedConnections, outsideWebSocket>>

\* send_json of request s returns (ok) or raises, and the request runs on
\* to its next send_json, to its return or, in broadcast_message, to the
\* RuntimeError of a dict iterator whose dict changed size.
SendResume(s) ==
    /\ spc[s] = "awaiting"
    /\ \E ok \in BOOLEAN :
          LET w == sop[s].websocket
              f == IF ok THEN disconnectedConnections[s]
                   ELSE Append(disconnectedConnections[s], <<sop[s].conv, w>>)
              j == NextItem(LoopList(s), sidx[s], sop[s].exclude)
              rest == Keys(activeConnections) \ sop[s].visited
          IN  /\ sent' = [sent EXCEPT ![s] = @ \cup {w}]
              /\ disconnectedConnections' = [disconnectedConnections EXCEPT ![s] = f]
              /\ IF j # 0
                 THEN /\ spc' = spc
                      /\ sidx' = [sidx EXCEPT ![s] = j]
                      /\ sop' = [sop EXCEPT ![s].websocket = LoopList(s)[j]]
                      /\ UNCHANGED <<activeConnections, connectionMetadata, slist, connectionKeys, sresult>>
                 ELSE IF sop[s].op = "send_conversation_message"
                 THEN /\ SendReturn(s, f)
                      /\ UNCHANGED <<sidx, sop>>
                 ELSE IF Cardinality(connectionKeys) # sop[s].size
                 THEN /\ spc' = [spc EXCEPT ![s] = "done"]
                      /\ sresult' = [sresult EXCEPT ![s] = "RuntimeError"]
                      /\ UNCHANGED <<activeConnections, connectionMetadata, slist,
                                     connectionKeys, sidx, sop>>
                 ELSE IF rest = {}
                 THEN /\ SendReturn(s, f)
                      /\ UNCHANGED <<sidx, sop>>
                 ELSE \E c \in rest :
                         /\ spc' = spc
                         /\ sidx' = [sidx EXCEPT ![s] = 1]
                         /\ sop' = [sop EXCEPT ![s].conv = c, ![s].visited = @ \cup {c},
                                               ![s].websocket = activeConnections[c][1]]
                         /\ slist' = [slist EXCEPT ![s] = LiveList]
                         /\ UNCHANGED <<activeConnections, connectionMetadata,
                                        connectionKeys, sresult>>
    /\ UNCHANGED <<cpc, csize, wstate, scall, outsideWebSocket>>

\* self.active_connections.clear(); self.connection_metadata.clear(): the
\* loops that iterate a list go on over the dropped object.
Clear(st) ==
    [ac |-> [c \in Convs |-> <<>>],
     md |-> [w \in Sockets |-> "none"],
     sl |-> [s \in Sends |->
                IF spc[s] = "awaiting" /\ ~st.sl[s].dropped
                THEN [dropped |-> TRUE, list |-> st.ac[sop[s].conv]] ELSE st.sl[s]],
     keys |-> {}]

\* cleanup up to its first websocket.close(); with no websocket to close it
\* clears the registry at once.
Cleanup ==
    /\ cpc = "idle"
    /\ IF Keys(activeConnections) = {}
       THEN /\ SetRegistry(Clear(Registry))
            /\ cpc' = "done"
            /\ csize' = csize
       ELSE /\ cpc' = "closing"
            /\ csize' = Cardinality(connectionKeys)
            /\ UNCHANGED <<activeConnections, connectionMetadata, slist, connectionKeys>>
    /\ UNCHANGED <<wstate, spc, sop, sidx, scall, sent, disconnectedConnections, sresult,
                   outsideWebSocket>>

\* cleanup after its last websocket.close(): the dict iterator raises
\* RuntimeError when the dict has another size than when the loop began,
\* else both dicts are cleared.
CleanupResume ==
    /\ cpc = "closing"
    /\ IF Cardinality(connectionKeys) # csize
       THEN /\ cpc' = "RuntimeError"
            /\ UNCHANGED <<activeConnections, connectionMetadata, slist, connectionKeys>>
       ELSE /\ cpc' = "done"
            /\ SetRegistry(Clear(Registry))
    /\ UNCHANGED <<csize, wstate, spc, sop, sidx, scall, sent, disconnectedConnections,
                   sresult, outsideWebSocket>>

WebSocketNext ==
    \/ Cleanup
    \/ CleanupResume
    \/ \E w \in Sockets, c \in Convs : Connect(w, c)
    \/ \E w \in Sockets : ConnectConfirmed(w)
    \/ \E c \in Convs : DisconnectConversation(c)
    \/ \E s \in Sends : SendConversationMessage(s)
    \/ \E s \in Sends : BroadcastMessage(s)
    \/ \E s \in Sends : SendResume(s)

WebSocketSpec == Init /\ [][WebSocketNext]_vars

\* ------------------------------------- DatabaseManager (database.py) ----
\* Every method opens its own session and runs without an await: one call is
\* one step.

AgentStored(rows, id) == id \in AgentRowIds /\ rows[id] # NoRow
ConversationStored(id) == id \in ConversationRowIds /\ conversationRows[id] # NoConversation

\* The next uuid4: an id no row has or ever had.
NextAgentId == agentIdsDrawn + 1
NextConversationId ==
    Cardinality({i \in ConversationRowIds : conversationRows[i] # NoConversation}) + 1

\* The database rejects a row whose foreign key names no row, and the delete
\* of a row that others name, only when it enforces foreign keys.
ForeignKeysEnforced == engine = "postgresql"

\* _agent_to_model: the config returned always carries the default model.
AgentToModel(row) ==
    [row EXCEPT !.config = [row.config EXCEPT !.model = DefaultModel]]

\* The row create_agent stores for a request.
AgentRow(u, req) ==
    [user |-> u, name |-> req.name, description |-> req.description,
     agent_type |-> req.agent_type, config |-> req.config, tools |-> req.tools,
     triggers |-> req.triggers, rag_enabled |-> req.rag_enabled,
     rag_sources |-> req.rag_sources]

\* get_agent: the model of the row with this id and user, or None (NoRow).
GetAgent(rows, id, u) ==
    IF AgentStored(rows, id) /\ rows[id].user = u
    THEN AgentToModel(rows[id]) ELSE NoRow

\* list_agents: the ids of the models returned.
ListAgents(rows, u) == {i \in AgentRowIds : rows[i] # NoRow /\ rows[i].user = u}

\* A delete_agent that reports success and leaves the row in the table.
DeleteAgentKeepsRow(rows, id, u) ==
    IF AgentStored(rows, id) /\ rows[id].user = u
    THEN [rows |-> rows, res |-> "True"]
    ELSE [rows |-> rows, res |-> "False"]

\* delete_agent: the table after the call, and what the call gives.
DeleteAgent(rows, id, u) ==
    IF ~(AgentStored(rows, id) /\ rows[id].user = u)
    THEN [rows |-> rows, res |-> "False"]
    ELSE IF ForeignKeysEnforced
            /\ \E c \in ConversationRowIds : conversationRows[c].agent_id = id
         THEN [rows |-> rows, res |-> "IntegrityError"]
         ELSE [rows |-> [rows EXCEPT ![id] = NoRow], res |-> "True"]

\* An update_agent that looks the row up by its id alone.
UpdateAgentOfAnyUser(rows, id, u, upd) ==
    IF ~AgentStored(rows, id)
    THEN [rows |-> rows, res |-> "None", model |-> NoRow]
    ELSE [rows |-> [rows EXCEPT ![id].name = upd.name], res |-> "agent",
          model |-> AgentToModel([rows[id] EXCEPT !.name = upd.name])]

\* update_agent: the table after the call, and what the call gives.
UpdateAgent(rows, id, u, upd) ==
    IF ~(AgentStored(rows, id) /\ rows[id].user = u)
    THEN [rows |-> rows, res |-> "None", model |-> NoRow]
    ELSE [rows |-> [rows EXCEPT ![id].name = upd.name], res |-> "agent",
          model |-> AgentToModel([rows[id] EXCEPT !.name = upd.name])]

Called(op, id, u, res, model) ==
    [op |-> op, id |-> id, user |-> u, res |-> res, model |-> model]

\* initialize: create_engine(settings.database_url) and create_all.
DbInitialize(e) ==
    /\ engine = "none"
    /\ engine' = e
    /\ UNCHANGED <<agentRows, conversationRows, messageRows, dbLast,
                   agentRequests, agentIdsDrawn, deletedAgents, viaSendMessage>>
    /\ UNCHANGED outsideDatabase

DbCreateAgent(u, req) ==
    /\ engine # "none"
    /\ NextAgentId \in AgentRowIds
    /\ agentRows' = [agentRows EXCEPT ![NextAgentId] = AgentRow(u, req)]
    /\ agentRequests' = [agentRequests EXCEPT ![NextAgentId] = AgentRow(u, req)]
    /\ agentIdsDrawn' = NextAgentId
    /\ dbLast' = Called("create_agent", NextAgentId, u, "agent", NoRow)
    /\ UNCHANGED <<conversationRows, messageRows, engine, deletedAgents, viaSendMessage>>
    /\ UNCHANGED outsideDatabase

DbGetAgent(id, u) ==
    /\ engine # "none"
    /\ dbLast' = Called("get_agent", id, u,
                        IF GetAgent(agentRows, id, u) = NoRow THEN "None" ELSE "agent",
                        GetAgent(agentRows, id, u))
    /\ UNCHANGED <<agentRows, conversationRows, messageRows, engine,
                   agentRequests, agentIdsDrawn, deletedAgents, viaSendMessage>>
    /\ UNCHANGED outsideDatabase

DbUpdateAgent(id, u, upd) ==
    /\ engine # "none"
    /\ LET d == UpdateAgent(agentRows, id, u, upd) IN
        /\ agentRows' = d.rows
        /\ dbLast' = Called("update_agent", id, u, d.res, d.model)
        /\ agentRequests' = IF d.res = "agent" THEN [agentRequests EXCEPT ![id] = d.rows[id]]
                            ELSE agentRequests
    /\ UNCHANGED <<conversationRows, messageRows, engine, agentIdsDrawn, deletedAgents,
                   viaSendMessage>>
    /\ UNCHANGED outsideDatabase

DbDeleteAgent(id, u) ==
    /\ engine # "none"
    /\ LET d == DeleteAgent(agentRows, id, u) IN
        /\ agentRows' = d.rows
        /\ dbLast' = Called("delete_agent", id, u, d.res, NoRow)
        /\ deletedAgents' = IF d.res = "True" THEN deletedAgents \cup {id}
                            ELSE deletedAgents
        /\ agentRequests' = IF d.res = "True" THEN [agentRequests EXCEPT ![id] = NoRow]
                            ELSE agentRequests
    /\ UNCHANGED <<conversationRows, messageRows, engine, agentIdsDrawn, viaSendMessage>>
    /\ UNCHANGED outsideDatabase

\* create_conversation: the agent id of the request is stored as given.
DbCreateConversation(a, u) ==
    /\ engine # "none"
    /\ NextConversationId \in ConversationRowIds
    /\ IF ForeignKeysEnforced /\ ~AgentStored(agentRows, a)
       THEN /\ dbLast' = Called("create_conversation", 0, "none", "IntegrityError", NoRow)
            /\ UNCHANGED conversationRows
       ELSE /\ conversationRows' =
                   [conversationRows EXCEPT ![NextConversationId] =
                       [agent_id |-> a, user |-> u, message_count |-> 0]]
            /\ dbLast' = Called("create_conversation", 0, "none", "conversation", NoRow)
    /\ UNCHANGED <<agentRows, messageRows, engine, agentRequests, agentIdsDrawn, deletedAgents,
                   viaSendMessage>>
    /\ UNCHANGED outsideDatabase

\* create_message: the message table after the call (unchanged when the
\* database rejects the row).
CreateMessage(rows, c) ==
    IF ForeignKeysEnforced /\ ~ConversationStored(c)
    THEN rows
    ELSE [rows EXCEPT ![c] = @ + 1]

\* The number of rows of the message table.
RECURSIVE CountMessages(_, _)
CountMessages(rows, c) ==
    IF c < 0 THEN 0 ELSE rows[c] + CountMessages(rows, c - 1)

DbCreateMessage(c) ==
    /\ engine # "none"
    /\ CountMessages(messageRows, NumConversationRows) < NumMessageRows
    /\ messageRows' = CreateMessage(messageRows, c)
    /\ dbLast' = Called("create_message", 0, "none",
                        IF messageRows' = messageRows THEN "IntegrityError" ELSE "message",
                        NoRow)
    /\ viaSendMessage' = (viaSendMessage /\ messageRows' = messageRows)
    /\ UNCHANGED <<agentRows, conversationRows, engine, agentRequests, agentIdsDrawn, deletedAgents>>
    /\ UNCHANGED outsideDatabase

\* update_conversation_timestamp
UpdateConversationTimestamp(rows, c) ==
    IF ConversationStored(c)
    THEN [rows EXCEPT ![c].message_count = @ + 1]
    ELSE rows

\* The endpoint send_message (main_original.py): 404 without the user's
\* conversation; else the user's message is stored, the agent answers or
\* raises, and after an answer the reply is stored and the count updated.
SendMessage(c, u) ==
    /\ engine # "none"
    /\ CountMessages(messageRows, NumConversationRows) + 2 <= NumMessageRows
    /\ IF ~(ConversationStored(c) /\ conversationRows[c].user = u)
       THEN /\ dbLast' = Called("send_message", 0, "none", "404", NoRow)
            /\ UNCHANGED <<messageRows, conversationRows>>
       ELSE \E answered \in BOOLEAN :
            IF answered
            THEN /\ messageRows' = CreateMessage(CreateMessage(messageRows, c), c)
                 /\ conversationRows' = UpdateConversationTimestamp(conversationRows, c)
                 /\ dbLast' = Called("send_message", 0, "none", "200", NoRow)
            ELSE /\ messageRows' = CreateMessage(messageRows, c)
                 /\ dbLast' = Called("send_message", 0, "none", "500", NoRow)
                 /\ UNCHANGED conversationRows
    /\ UNCHANGED <<agentRows, engine, agentRequests, agentIdsDrawn, deletedAgents, viaSendMessage>>
    /\ UNCHANGED outsideDatabase

DatabaseNext ==
    \/ \E e \in {"sqlite", "postgresql"} : DbInitialize(e)
    \/ \E u \in Users, req \in AgentRequests : DbCreateAgent(u, req)
    \/ \E id \in 0..NumAgentRows, u \in Users : DbGetAgent(id, u)
    \/ \E id \in 0..NumAgentRows, u \in Users : DbDeleteAgent(id, u)
    \/ \E a \in 0..NumAgentRows, u \in Users : DbCreateConversation(a, u)
    \/ \E c \in 0..NumConversationRows : DbCreateMessage(c)
    \/ \E c \in 0..NumConversationRows, u \in Users : SendMessage(c, u)

DatabaseSpec == Init /\ [][DatabaseNext]_vars

\* The operations on the agent table alone, update_agent among them.
AgentTableNext ==
    \/ \E e \in {"sqlite", "postgresql"} : DbInitialize(e)
    \/ \E u \in Users, req \in AgentRequests : DbCreateAgent(u, req)
    \/ \E id \in 0..NumAgentRows, u \in Users : DbGetAgent(id, u)
    \/ \E id \in 0..NumAgentRows, u \in Users, upd \in AgentUpdates : DbUpdateAgent(id, u, upd)
    \/ \E id \in 0..NumAgentRows, u \in Users : DbDeleteAgent(id, u)

AgentTableSpec == Init /\ [][AgentTableNext]_vars

\* ------------- SimpleCrewAIAgentManager (crew_manager_simple.py) ----
\* No method of the manager awaits anything but another method of it: one
\* call is one step.

\* What the execution of a task gave: by names who ran it.
Outcome(res, by) == [res |-> res, by |-> by]

\* execute_task: with CrewAI the task is run by a crew of the agent alone,
\* without it by self.llm.invoke; ok is whether that call returns.
ExecuteTaskSimple(reg, available, id, ok) ==
    IF id \notin reg
    THEN Outcome("Agent not found", "none")
    ELSE Outcome(IF ok THEN "response" ELSE "error",
                 IF available THEN id ELSE "llm")

\* A process_conversation_message that runs the task with any registered
\* agent.
ProcessWithAnyAgent(reg, available, id, ok) ==
    IF reg = {}
    THEN Outcome("Agent not found", "none")
    ELSE ExecuteTaskSimple(reg, available, CHOOSE a \in reg : TRUE, ok)

\* process_conversation_message for a conversation whose agent_id is id.
ProcessConversationMessage(reg, available, id, ok) ==
    IF id \notin reg
    THEN Outcome("Agent not found", "none")
    ELSE ExecuteTaskSimple(reg, available, id, ok)

\* remove_agent: the registry and the crews after the call, and what the
\* call gives.  The crews to remove are computed after the agent is deleted,
\* by reading self.agents[agent_id] for the first agent of each crew.
RemoveAgent(reg, crws, id) ==
    IF id \notin reg
    THEN [agents |-> reg, crews |-> crws, res |-> "False"]
    ELSE IF \E k \in DOMAIN crws : crws[k] # {}
         THEN [agents |-> reg \ {id}, crews |-> crws, res |-> "KeyError"]
         ELSE [agents |-> reg \ {id}, crews |-> crws, res |-> "True"]

ManagerCalled(op, id, out) == [op |-> op, id |-> id, res |-> out.res, by |-> out.by]

\* The import of the module sets CREWAI_AVAILABLE.
SimpleImport(available) ==
    /\ crewai = "unset"
    /\ crewai' = IF available THEN "available" ELSE "missing"
    /\ UNCHANGED <<simpleAgents, simpleCrews, mlast>>
    /\ UNCHANGED outsideSimpleManager

\* create_agent: ok is whether the Agent constructor succeeds.
SimpleCreateAgent(id, ok) ==
    /\ crewai # "unset"
    /\ simpleAgents' = IF ok THEN simpleAgents \cup {id} ELSE simpleAgents
    /\ mlast' = ManagerCalled("create_agent", id,
                              Outcome(IF ok THEN "agent" ELSE "error", "none"))
    /\ UNCHANGED <<crewai, simpleCrews>>
    /\ UNCHANGED outsideSimpleManager

\* create_crew: the crew gets the registered agents among agent_ids and a
\* fresh uuid4 as its id.
SimpleCreateCrew(ids, k) ==
    /\ crewai # "unset"
    /\ simpleCrews[k] = {}
    /\ LET members == ids \cap simpleAgents
       IN  IF members = {}
           THEN /\ mlast' = ManagerCalled("create_crew", "none",
                                          Outcome("ValueError", "none"))
                /\ UNCHANGED simpleCrews
           ELSE /\ mlast' = ManagerCalled("create_crew", "none", Outcome("crew", "none"))
                /\ simpleCrews' = [simpleCrews EXCEPT ![k] = members]
    /\ UNCHANGED <<crewai, simpleAgents>>
    /\ UNCHANGED outsideSimpleManager

SimpleProcessConversationMessage(id, ok) ==
    /\ crewai # "unset"
    /\ mlast' = ManagerCalled("process_conversation_message", id,
                              ProcessConversationMessage(simpleAgents, crewai = "available",
                                                         id, ok))
    /\ UNCHANGED <<crewai, simpleAgents, simpleCrews>>
    /\ UNCHANGED outsideSimpleManager

SimpleRemoveAgent(id) ==
    /\ crewai # "unset"
    /\ LET r == RemoveAgent(simpleAgents, simpleCrews, id) IN
        /\ simpleAgents' = r.agents
        /\ simpleCrews' = r.crews
        /\ mlast' = ManagerCalled("remove_agent", id, Outcome(r.res, "none"))
    /\ UNCHANGED crewai
    /\ UNCHANGED outsideSimpleManager

SimpleManagerNext ==
    \/ \E available \in BOOLEAN : SimpleImport(available)
    \/ \E id \in SimpleAgentIds, ok \in BOOLEAN : SimpleCreateAgent(id, ok)
    \/ \E ids \in SUBSET SimpleAgentIds, k \in SimpleCrewIds : SimpleCreateCrew(ids, k)
    \/ \E id \in SimpleAgentIds, ok \in BOOLEAN : SimpleProcessConversationMessage(id, ok)
    \/ \E id \in SimpleAgentIds : SimpleRemoveAgent(id)

SimpleManagerSpec == Init /\ [][SimpleManagerNext]_vars

\* ------------------- authentication (simplified_auth.py, main.py) ----
\* SimpleAuth.test_users, by key; each request builds a new SimpleAuth, so
\* the tables are never other than these.
TestUsers ==
    [k \in {"system_admin", "test_user", "system"} |->
        [id |-> CASE k = "system_admin" -> "admin_001"
                  [] k = "test_user" -> "user_001"
                  [] OTHER -> "system",
         username |-> k,
         role |-> CASE k = "system_admin" -> "admin"
                    [] k = "test_user" -> "user"
                    [] OTHER -> "system"]]

\* SimpleAuth.test_tokens
TestTokens ==
    [t \in {"demo_token_123", "demo_token_456", "demo_token_789",
            "test_performance_user_token"} |->
        CASE t = "demo_token_456" -> "test_user"
          [] t = "demo_token_789" -> "system"
          [] OTHER -> "system_admin"]

NoUser == [id |-> "none", username |-> "none", role |-> "none"]

\* The user get_current_user_simple gives when authentication fails.
DefaultTestUser == [id |-> "test_user", username |-> "test_user", role |-> "user"]

\* validate_token: the user of a token of test_tokens, else the user whose
\* key in test_users is the token itself, else None (NoUser).
ValidateToken(token) ==
    IF token \in DOMAIN TestTokens /\ TestTokens[token] \in DOMAIN TestUsers
    THEN TestUsers[TestTokens[token]]
    ELSE IF token \in DOMAIN TestUsers
         THEN TestUsers[token]
         ELSE NoUser

\* get_current_user_simple: a request without credentials is given the
\* token demo_token_123; an HTTPException is answered with the default user.
GetCurrentUserSimple(credentials) ==
    LET token == IF credentials # NoCredentials THEN credentials ELSE "demo_token_123"
    IN  IF token = "" \/ ValidateToken(token) = NoUser
        THEN DefaultTestUser
        ELSE ValidateToken(token)

Answer(status, user) == [status |-> status, user |-> user]

\* An admin dependency that falls back on get_current_user_simple.
GetCurrentUserAdminLenient(credentials) ==
    IF GetCurrentUserSimple(credentials).role # "admin"
    THEN Answer("403", NoUser)
    ELSE Answer("200", GetCurrentUserSimple(credentials))

\* get_current_user_admin: the user, or the status of the HTTPException.
GetCurrentUserAdmin(credentials) ==
    IF credentials = NoCredentials \/ credentials = ""
    THEN Answer("401", NoUser)
    ELSE IF ValidateToken(credentials) = NoUser
         THEN Answer("401", NoUser)
         ELSE IF ValidateToken(credentials).role # "admin"
              THEN Answer("403", NoUser)
              ELSE Answer("200", ValidateToken(credentials))

Served(e, credentials, a, ran) ==
    [endpoint |-> e, credentials |-> credentials, status |-> a.status,
     handler |-> ran, user |-> a.user]

\* A request to an endpoint whose current_user is
\* Depends(get_current_user_admin): the handler runs when the dependency
\* returns a user.
AdminRequest(e, credentials) ==
    /\ Len(responses) < NumRequests
    /\ LET a == GetCurrentUserAdmin(credentials)
       IN  responses' = Append(responses, Served(e, credentials, a, a.status = "200"))
    /\ UNCHANGED outsideApi

\* A request to an endpoint whose current_user is Depends(get_current_user).
UserRequest(e, credentials) ==
    /\ Len(responses) < NumRequests
    /\ responses' = Append(responses,
            Served(e, credentials, Answer("200", GetCurrentUserSimple(credentials)), TRUE))
    /\ UNCHANGED outsideApi

ApiNext ==
    \/ \E e \in AdminEndpoints, cr \in Credentials : AdminRequest(e, cr)
    \/ \E e \in UserEndpoints, cr \in Credentials : UserRequest(e, cr)

ApiSpec == Init /\ [][ApiNext]_vars

\* ------------- CopilotStreamManager (copilot_stream.py, main.py) ----
\* The endpoints are taken with COPILOT_STREAM_AVAILABLE set.  A GET runs
\* generate_events over generate_stream_response; each event the inner
\* generator yields is formatted and handed to the response, where the
\* request can be cancelled when the client has gone.
\* x is the record of one GET.

\* yield event (a text-delta taken from the callback queue), and its SSE
\* message.
YieldTextDelta(x) ==
    [x EXCEPT !.queue = @ - 1, !.events = Append(@, "text-delta"),
              !.sse = Append(@, "message")]

\* yield {"type": "done"} and the SSE event done.
StreamDone(x) ==
    [x EXCEPT !.pc = "sent_done", !.events = Append(@, "done"), !.sse = Append(@, "done")]

\* An except branch after which the generator goes on to its done event.
StreamErrorThenDone(x) ==
    StreamDone([x EXCEPT !.events = Append(@, "error"), !.sse = Append(@, "error")])

\* except Exception: yield {"type": "error"} and the SSE event error; the
\* events left in the queue are not yielded.
StreamError(x) ==
    [x EXCEPT !.pc = "sent_error", !.events = Append(@, "error"), !.sse = Append(@, "error")]

\* delete_stream
DeleteStream(cache, id) == cache \ {id}

GetInOrder(r) == \A b \in Gets : b < r => stream[b].pc # "idle"

\* POST /api/copilot/stream: create_stream under a fresh uuid4.
CreateCopilotStream ==
    /\ streamsCreated < NumStreams
    /\ streamsCreated' = streamsCreated + 1
    /\ streamCache' = streamCache \cup {streamsCreated + 1}
    /\ UNCHANGED <<stream, outsideCopilot>>

\* GET /api/copilot-stream-response/{stream_id} up to its response: 404
\* when get_stream_data finds nothing, else the StreamingResponse.
StreamCopilotResponse(r, id) ==
    /\ stream[r].pc = "idle" /\ GetInOrder(r)
    /\ stream' = [stream EXCEPT ![r] =
            IF id \in streamCache
            THEN [NoStream EXCEPT !.id = id, !.pc = "start", !.status = "200"]
            ELSE [NoStream EXCEPT !.id = id, !.pc = "404", !.status = "404"]]
    /\ UNCHANGED <<streamCache, streamsCreated, outsideCopilot>>

\* generate_stream_response up to self.llm.astream: ok is whether the
\* prompt and the messages are built without an exception.
GenerateStreamResponse(r) ==
    /\ stream[r].pc = "start"
    /\ \E ok \in BOOLEAN :
          stream' = [stream EXCEPT ![r] =
              IF ok THEN [@ EXCEPT !.pc = "astream"] ELSE StreamError(@)]
    /\ UNCHANGED <<streamCache, streamsCreated, outsideCopilot>>

\* on_llm_new_token puts a text-delta in the queue.
OnLlmNewToken(r) ==
    /\ stream[r].pc = "astream"
    /\ stream[r].tokens < MaxTokens
    /\ stream' = [stream EXCEPT ![r].tokens = @ + 1, ![r].queue = @ + 1]
    /\ UNCHANGED <<streamCache, streamsCreated, outsideCopilot>>

\* An event of the queue is yielded, during astream or after it.
YieldEvent(r) ==
    /\ stream[r].pc \in {"astream", "drain"}
    /\ stream[r].queue > 0
    /\ stream' = [stream EXCEPT ![r] = YieldTextDelta(@)]
    /\ UNCHANGED <<streamCache, streamsCreated, outsideCopilot>>

\* astream ends, or raises.
AstreamEnd(r) ==
    /\ stream[r].pc = "astream"
    /\ \E ok \in BOOLEAN :
          stream' = [stream EXCEPT ![r] =
              IF ok THEN [@ EXCEPT !.pc = "drain"] ELSE StreamError(@)]
    /\ UNCHANGED <<streamCache, streamsCreated, outsideCopilot>>

\* The queue is empty after astream: the done event.
YieldDone(r) ==
    /\ stream[r].pc = "drain"
    /\ stream[r].queue = 0
    /\ stream' = [stream EXCEPT ![r] = StreamDone(@)]
    /\ UNCHANGED <<streamCache, streamsCreated, outsideCopilot>>

\* generate_events after the SSE event done: the SSE event end.
SendEnd(r) ==
    /\ stream[r].pc = "sent_done"
    /\ stream' = [stream EXCEPT ![r].pc = "sent_end", ![r].sse = Append(@, "end")]
    /\ UNCHANGED <<streamCache, streamsCreated, outsideCopilot>>

\* generate_events after its last SSE event: break, delete_stream, and the
\* response ends.
StreamEnd(r) ==
    /\ stream[r].pc \in {"sent_end", "sent_error"}
    /\ stream' = [stream EXCEPT ![r].pc = "ended"]
    /\ streamCache' = DeleteStream(streamCache, stream[r].id)
    /\ UNCHANGED <<streamsCreated, outsideCopilot>>

\* The client has gone: the response is cancelled where it is suspended,
\* and its generators are closed there.
StreamCancelled(r) ==
    /\ stream[r].pc \in {"astream", "drain", "sent_done", "sent_end", "sent_error"}
    /\ stream' = [stream EXCEPT ![r].pc = "cancelled"]
    /\ UNCHANGED <<streamCache, streamsCreated, outsideCopilot>>

CopilotNext ==
    \/ CreateCopilotStream
    \/ \E r \in Gets, id \in 0..NumStreams : StreamCopilotResponse(r, id)
    \/ \E r \in Gets : GenerateStreamResponse(r)
    \/ \E r \in Gets : OnLlmNewToken(r)
    \/ \E r \in Gets : YieldEvent(r)
    \/ \E r \in Gets : AstreamEnd(r)
    \/ \E r \in Gets : YieldDone(r)
    \/ \E r \in Gets : SendEnd(r)
    \/ \E r \in Gets : StreamEnd(r)
    \/ \E r \in Gets : StreamCancelled(r)

CopilotSpec == Init /\ [][CopilotNext]_vars

\* ------------------------------------------------------------ claims ----
\* The request went into OptimizedCrewAIAgentManager.create_agent_optimized.
EnteredManager(c) == kind[c] = "create" /\ Len(steps[c]) > 0

\* The pairs of ConfigLens that the specification calls invalid: name
\* missing, shorter than 2 or longer than 100, or description longer than 1000.
InvalidLens(k) ==
    /\ k.nameLen >= 0
    /\ (k.nameLen = 0 \/ k.nameLen < 2 \/ k.nameLen > 100 \/ k.descLen > 1000)

C2_ReadyReturnsAgent ==
    [][\A c \in Calls :
          (pc[c] = "gathered" /\ pc'[c] = "done") =>
              /\ mgrResult'[c] = Returned(AgentObj(c))
              /\ agents'[cfg[c].id] = AgentObj(c)]_vars

\* C3 (as claimed): when create_agent_optimized degrades, it returns the
\* stub marked fallback with status operational, and agents[agent_id] holds
\* that same object.
C3_DegradedReturnsStoredStub ==
    [][\A c \in Calls :
          (pc[c] # "done" /\ pc'[c] = "done" /\ EnteredManager(c)'
             /\ mgrResult'[c].val.kind # "agent") =>
              /\ mgrResult'[c].how = "return"
              /\ mgrResult'[c].val.fallback
              /\ mgrResult'[c].val.status = "operational"
              /\ agents'[cfg'[c].id] = mgrResult'[c].val]_vars

\* C4: the steps of one create_agent_optimized call begin in the order
\* validate, template, ensure initialization, construct, background; a call
\* runs the initialization body only at its ensure-initialization step; and a
\* call whose configuration is invalid begins no step after validation, runs
\* no initialization and constructs no agent.
C4_StepOrder ==
    \A c \in Calls :
        /\ \E n \in 0..5 :
              steps[c] = SubSeq(<<"validate", "template", "ensure_init",
                                  "construct", "background">>, 1, n)
        /\ (kind[c] = "create" /\ callRanInit[c]) => Len(steps[c]) >= 3
        /\ pc[c] \in {"gather", "gathered"} => Len(steps[c]) >= 4
        /\ InvalidLens(cfg[c]) =>
              /\ Len(steps[c]) <= 1
              /\ ~callRanInit[c]
              /\ pc[c] \notin {"gather", "gathered"}
              /\ mgrResult[c].val.kind # "agent"
              /\ agentTools[c] = {}

\* Witness of C4: a call with a one-character name ended after validation
\* while another call went through all five steps.
C4_Witness ==
    \E c \in Calls, b \in Calls :
        /\ pc[c] = "done" /\ cfg[c].nameLen = 1 /\ steps[c] = <<"validate">>
        /\ Len(steps[b]) = 5

\* C5 (as claimed): when setting up the optimized manager fails, the simple
\* manager is activated as fallback and the integration is ready.
C5_FallbackActivated ==
    (setupRun /\ ~optimizedManager) => (isReady /\ fallbackManager)

C7_InitOnce ==
    /\ bodyRuns <= 1
    /\ isInitialized => bodyRuns = 1
    /\ bodyRuns = 1 => isInitialized

\* Witness of C7: the background task, a creation request and a message
\* request have all gone through _ensure_initialized.
C7_Witness ==
    /\ initTask = "done"
    /\ \E c \in Calls : kind[c] = "create" /\ Len(steps[c]) >= 3
    /\ \E m \in Calls : kind[m] = "message" /\ pc[m] = "done"
                          /\ outcome[m].val.kind # "msg_not_found"
    /\ bodyRuns = 1

\* C8 (as claimed): every attachment of tools to the agent is made by a
\* background task the foreground call does not await, so no attachment is
\* made by the coroutines the call awaits through asyncio.gather.
C8_AttachOnlyInBackground ==
    [][\A c \in Calls :
          agentTools'[c] # agentTools[c] => pc[c] # "gather"]_vars

\* C9: _process_tools_slowly is started at most once per creation call and
\* never again after it ran, and when it fails nothing but the task itself
\* changes: the registry, the call's result and the integration's counters
\* stay as they are.
C9_ToolsAtMostOnce ==
    /\ [](\A c \in Calls : toolStarts[c] <= 1)
    /\ [][\A c \in Calls :
             /\ (ptask[c] \in {"done", "failed"}) => toolStarts'[c] = toolStarts[c]
             /\ (ptask[c] = "sleeping" /\ ptask'[c] = "failed") =>
                   /\ agents' = agents
                   /\ mgrResult' = mgrResult
                   /\ outcome' = outcome
                   /\ failedCreations' = failedCreations
                   /\ agentTools' = agentTools]_vars

\* Witness of C9: a creation call has returned and its tool task has failed.
C9_Witness ==
    \E c \in Calls :
        /\ pc[c] = "done" /\ outcome[c].how = "return"
        /\ toolStarts[c] = 1 /\ ptask[c] = "failed"

\* C10 (as claimed): every crew.kickoff() runs in a worker thread, so while
\* a kickoff is in progress no synchronous call holds the event loop thread
\* and the loop can serve other requests.
C10_KickoffOffloaded ==
    \A t \in Tasks :
        (tpc[t] = "kickoff_inline" \/ kickoffThread[t] = "running") => LoopFree

Registered(w) == \E c \in Convs : InList(w, activeConnections[c])

FailedSockets(s) == {disconnectedConnections[s][i][2] : i \in 1..Len(disconnectedConnections[s])}

\* C11 (as claimed): when send_conversation_message(c, msg, exclude) has
\* returned, send_json was called on every websocket other than exclude that
\* was registered under c when the call was made (and is registered still),
\* and on no websocket that connected under another conversation.
C11_SendReachesConversation ==
    \A s \in Sends :
        (spc[s] = "done" /\ sop[s].op = "send_conversation_message") =>
            /\ \A w \in scall[s] \ {sop[s].exclude} : Registered(w) => w \in sent[s]
            /\ \A w \in sent[s] : wstate[w].conv = sop[s].conv /\ w # sop[s].exclude

\* C20: when send_conversation_message or broadcast_message has returned, no
\* websocket whose send_json raised is in active_connections or in
\* connection_metadata; and the step in which the call returns removes only
\* those: every other websocket registered before it, the ones whose send
\* succeeded among them, is registered after it with its metadata.
C20_FailedRemovedOthersKept ==
    /\ [](\A s \in Sends :
             sresult[s] = "return" =>
                \A w \in FailedSockets(s) :
                   ~Registered(w) /\ connectionMetadata[w] = "none")
    /\ [][\A s \in Sends :
             (sresult[s] = "pending" /\ sresult'[s] = "return") =>
                \A w \in Sockets \ FailedSockets(s)' :
                   /\ Registered(w) => Registered(w)'
                   /\ connectionMetadata'[w] = connectionMetadata[w]]_vars

\* Witness of C20: a call has returned after one send_json raised and another
\* succeeded, and the websocket of the successful one is still registered.
C20_Witness ==
    \E s \in Sends :
        /\ sresult[s] = "return"
        /\ FailedSockets(s) # {}
        /\ \E w \in sent[s] \ FailedSockets(s) :
              Registered(w) /\ connectionMetadata[w] # "none"


\* C12: an agent created from a request and read back with get_agent under
\* the same user has the request's name, description, agent_type, config,
\* tools, triggers, rag_enabled and rag_sources.
C12_CreateGetRoundTrip ==
    (dbLast.op = "get_agent" /\ dbLast.res = "agent") =>
        dbLast.model = agentRequests[dbLast.id]

\* delete_agent as its callers see it: the result alone.
DeleteAgentResult(id, u) == DeleteAgent(agentRows, id, u).res

\* C13: once delete_agent(id, u) has returned True, get_agent(id, u) gives
\* None, list_agents(u) does not hold id, and a second delete_agent(id, u)
\* returns False.
C13_DeleteRoundTrip ==
    \A id \in deletedAgents : \A u \in Users :
        /\ GetAgent(agentRows, id, u) = NoRow
        /\ id \notin ListAgents(agentRows, u)
        /\ DeleteAgentResult(id, u) = "False"

\* An agent was deleted, and the same delete was asked again.
C13_Witness ==
    /\ dbLast.op = "delete_agent"
    /\ dbLast.res = "False"
    /\ dbLast.id \in deletedAgents

\* C14: every stored conversation names a stored agent and every stored
\* message names a stored conversation.
C14_ReferentialIntegrity ==
    /\ \A c \in ConversationRowIds :
           ConversationStored(c) => AgentStored(agentRows, conversationRows[c].agent_id)
    /\ \A c \in 0..NumConversationRows :
           messageRows[c] > 0 => ConversationStored(c)

\* C19: while messages are stored by send_message only, the message_count of
\* every conversation is the number of messages stored for it.
C19_MessageCountMatches ==
    viaSendMessage =>
        \A c \in ConversationRowIds :
            ConversationStored(c) => conversationRows[c].message_count = messageRows[c]

\* C15 as stated: a message for a conversation whose agent_id is registered
\* is executed by that agent and returns a response, and a message for any
\* other agent_id fails with 'Agent ... not found'.
C15_ProcessedByRegisteredAgent ==
    mlast.op = "process_conversation_message" =>
        IF mlast.id \in simpleAgents
        THEN mlast.res = "response" /\ mlast.by = mlast.id
        ELSE mlast.res = "Agent not found"

\* C15 as amended: the call fails with 'Agent ... not found' exactly when the
\* agent_id is not registered; for a registered agent_id the task is run by
\* a crew of that agent alone when CrewAI is available and by the manager's
\* LLM otherwise, and the call returns the response or raises the error of
\* that run.
C15_NotFoundExactlyWhenUnregistered ==
    mlast.op = "process_conversation_message" =>
        /\ mlast.res = "Agent not found" <=> mlast.id \notin simpleAgents
        /\ mlast.id \in simpleAgents =>
              /\ mlast.res \in {"response", "error"}
              /\ mlast.by = IF crewai = "available" THEN mlast.id ELSE "llm"

\* A registered agent answered while another id was not registered.
C15_Witness ==
    /\ mlast.op = "process_conversation_message"
    /\ mlast.res = "response"
    /\ mlast.by = mlast.id
    /\ simpleAgents # SimpleAgentIds

\* C18: remove_agent on a registered id returns True and leaves the agent
\* out of the registry and every crew that held it out of crews; on an
\* unregistered id it returns False and changes nothing.
C18_RemoveAgent ==
    [][\A id \in SimpleAgentIds : SimpleRemoveAgent(id) =>
          IF id \in simpleAgents
          THEN /\ mlast'.res = "True"
               /\ id \notin simpleAgents'
               /\ \A k \in SimpleCrewIds : id \in simpleCrews[k] => simpleCrews'[k] = {}
          ELSE /\ mlast'.res = "False"
               /\ UNCHANGED <<simpleAgents, simpleCrews>>]_vars

\* The responses of the endpoints guarded by get_current_user_admin, and of
\* those guarded by get_current_user.
AdminResponses == {responses[i] : i \in {j \in 1..Len(responses) :
                                           responses[j].endpoint \in AdminEndpoints}}
UserResponses == {responses[i] : i \in {j \in 1..Len(responses) :
                                          responses[j].endpoint \in UserEndpoints}}

\* The user a token of the static token table stands for (NoUser: no such
\* token in the table).
UserOfTableToken(credentials) ==
    IF credentials \in DOMAIN TestTokens THEN TestUsers[TestTokens[credentials]] ELSE NoUser

\* C16 as stated: an admin-guarded handler runs only for a token that the
\* static token table resolves to an admin; no credentials or a token the
\* table does not hold gives 401, a token of a non-admin 403.
C16_AdminOnlyThroughTokenTable ==
    \A r \in AdminResponses :
        /\ r.handler => UserOfTableToken(r.credentials).role = "admin"
        /\ UserOfTableToken(r.credentials) = NoUser => r.status = "401"
        /\ UserOfTableToken(r.credentials).role \in {"user", "system"} => r.status = "403"

\* The user a bearer token names: through the token table, or as the key of
\* a user of the user table.
UserOfToken(credentials) ==
    IF credentials \in DOMAIN TestTokens THEN TestUsers[TestTokens[credentials]]
    ELSE IF credentials \in DOMAIN TestUsers THEN TestUsers[credentials]
    ELSE NoUser

\* C16 as amended: an admin-guarded handler runs only for a bearer token
\* that names an admin, through the token table or as the key of a user of
\* the user table; no credentials or a token that names no user gives 401,
\* a token that names a non-admin 403.
C16_AdminOnly ==
    \A r \in AdminResponses :
        /\ r.handler <=> UserOfToken(r.credentials).role = "admin"
        /\ r.handler => r.user.role = "admin"
        /\ UserOfToken(r.credentials) = NoUser => r.status = "401"
        /\ UserOfToken(r.credentials).role \in {"user", "system"} => r.status = "403"

\* A handler ran for the admin named by its key in the user table, and a
\* token of a non-admin was refused with 403.
C16_Witness ==
    /\ \E r \in AdminResponses : r.handler /\ r.credentials = "system_admin"
    /\ \E r \in AdminResponses : r.status = "403" /\ r.credentials = "demo_token_456"

\* C17: through get_current_user a request with no credentials or with an
\* unknown token is never given a user with role admin.
C17_NoAdminWithoutToken ==
    \A r \in UserResponses :
        (r.credentials = NoCredentials \/ UserOfToken(r.credentials) = NoUser) =>
            r.user.role # "admin"

\* C21: a websocket has a connection_metadata entry exactly when it is in
\* some active_connections list, the entry names a conversation whose list
\* holds it, and no key of active_connections maps to an empty list.
C21_RegistryConsistent ==
    /\ \A w \in Sockets : connectionMetadata[w] # "none" <=> Registered(w)
    /\ \A w \in Sockets :
           connectionMetadata[w] # "none" => InList(w, activeConnections[connectionMetadata[w]])
    /\ \A c \in Convs : c \in connectionKeys <=> activeConnections[c] # <<>>

\* One websocket is registered, another was registered and has been
\* removed, a send has run its clean-up and the manager's cleanup has run.
C21_Witness ==
    /\ \E w \in Sockets : Registered(w)
    /\ \E w \in Sockets : wstate[w].st = "connected" /\ ~Registered(w)
    /\ \E s \in Sends : sresult[s] = "return" /\ FailedSockets(s) # {}
    /\ cpc = "done"

\* C22: a broadcast_message during which connect or disconnect ran ends
\* without raising and has sent to every websocket that was registered from
\* its call to its end.
C22_BroadcastSafe ==
    \A s \in Sends :
        (spc[s] = "done" /\ sop[s].op = "broadcast_message") =>
            /\ sresult[s] = "return"
            /\ \A w \in scall[s] : Registered(w) => w \in sent[s]

\* C23: when the endpoint of one client ends on that client's disconnect,
\* no other websocket leaves the registry.
C23_OnlyThatClientRemoved ==
    [][\A c \in Convs : DisconnectConversation(c) =>
          \A w \in Sockets :
              (Registered(w) /\ ~Registered(w)') => wstate'[w].st = "closed"]_vars

\* The generator of GET r has yielded its last event.
GeneratorOver(r) == stream[r].pc \in {"sent_done", "sent_end", "sent_error", "ended"}

Terminal(e) == e \in {"done", "error"}

\* C24: the events of generate_stream_response hold at most one terminal
\* event, done or error, nothing follows it, and a generator that has run
\* to its end has yielded one.
C24_OneTerminalEvent ==
    \A r \in Gets :
        LET ev == stream[r].events IN
        /\ \A i \in 1..Len(ev) : Terminal(ev[i]) => i = Len(ev)
        /\ GeneratorOver(r) => Len(ev) > 0 /\ Terminal(ev[Len(ev)])

\* One stream ended with done after a text-delta, another with error.
C24_Witness ==
    /\ \E r \in Gets : stream[r].events = <<"text-delta", "done">> /\ stream[r].pc = "ended"
    /\ \E r \in Gets : stream[r].events # <<>> /\ stream[r].events[Len(stream[r].events)] = "error"

\* The SSE response of GET r is over and its last event was done (with its
\* end mark) or error.
EndedWithTerminal(r) ==
    /\ stream[r].pc \in {"ended", "cancelled"}
    /\ stream[r].sse # <<>>
    /\ stream[r].sse[Len(stream[r].sse)] \in {"done", "end", "error"}

\* C25: a created stream id stays in the cache until a GET has streamed it;
\* a GET of an id the cache does not hold gives 404; once the SSE response
\* of an id is over with done or error, the id is out of the cache.
C25_StreamLifecycle ==
    /\ \A id \in 1..streamsCreated :
           id \notin streamCache => \E r \in Gets : stream[r].id = id /\ stream[r].pc = "ended"
    /\ \A r \in Gets : stream[r].status = "404" => stream[r].events = <<>>
    /\ \A r \in Gets : EndedWithTerminal(r) => stream[r].id \notin streamCache

\* A call of get_agent, update_agent or delete_agent for agent id by user u.
AgentCallBy(id, u) ==
    \/ DbGetAgent(id, u)
    \/ \E upd \in AgentUpdates : DbUpdateAgent(id, u, upd)
    \/ DbDeleteAgent(id, u)

\* C26: get_agent, update_agent and delete_agent called for a stored agent
\* with a user id other than its owner's give None, None and False, and
\* leave the stored agent as it was.
C26_AgentsIsolatedPerOwner ==
    [][\A id \in AgentRowIds, u \in Users :
          (AgentCallBy(id, u) /\ AgentStored(agentRows, id) /\ agentRows[id].user # u) =>
              /\ dbLast'.res = IF dbLast'.op = "delete_agent" THEN "False" ELSE "None"
              /\ dbLast'.model = NoRow
              /\ agentRows' = agentRows]_vars

\* update_agent by another user gave None for an agent its owner had renamed.
C26_Witness ==
    /\ dbLast.op = "update_agent" /\ dbLast.res = "None"
    /\ AgentStored(agentRows, dbLast.id)
    /\ agentRows[dbLast.id].user # dbLast.user
    /\ agentRows[dbLast.id].name = "Renamed Agent"

============================================================================
